---------------------------- MODULE Spec2Model ----------------------------
(***************************************************************************)
(* Model of the two-pass unitypackage extractor:                           *)
(*   sanitize_path.rs      the path sanitizer (pure function)              *)
(*   memory_tracker.rs     the buffer budget counter                       *)
(*   thread_pool.rs        the admission-gated queue and its workers       *)
(*   file_operations.rs    create / move / delete / mkdir / stream         *)
(*   archive_operations.rs the scan and the two post-passes                *)
(*                                                                         *)
(* Strings are sequences of one-character strings; the control characters  *)
(* are written "NUL", "LF", "CR", "TAB" and "SP".  A path of a tar entry   *)
(* is a record [dir |-> <<component, ...>>, leaf |-> name].  The           *)
(* filesystem is a reliable one: an operation fails only for a reason the  *)
(* filesystem state gives (missing source, a file where a directory is     *)
(* needed, a directory where a file is needed) or because the sanitizer    *)
(* rejects the target.  Each file operation acts on the filesystem in one  *)
(* step.                                                                   *)
(***************************************************************************)
EXTENDS Integers, Sequences, FiniteSets, TLC

\* ------------------------------------------------------------------ bounds
MaxLen == 6          \* longest input string given to the sanitizer
MaxEntries == 3      \* the archive holds at most MaxEntries entries
MaxOps == 2          \* file operations applied in a row to one directory

\* ------------------------------------------------------- program constants
KB == 1024

\* --------------------------------------------------------------- sanitizer
TRIM_CHARS == {"NUL", "SP", "LF", "TAB", "CR", "/", "."}
END_OF_STRING_CHARS == {"NUL", "LF", "CR"}

RECURSIVE TrimStart(_)
TrimStart(s) ==
    IF s # <<>> /\ Head(s) \in TRIM_CHARS THEN TrimStart(Tail(s)) ELSE s

RECURSIVE TrimEnd(_)
TrimEnd(s) ==
    IF s # <<>> /\ s[Len(s)] \in TRIM_CHARS
    THEN TrimEnd(SubSeq(s, 1, Len(s) - 1))
    ELSE s

\* str::trim_matches(TRIM_CHARS)
trim_matches(s) == TrimEnd(TrimStart(s))

\* str::replace('\\', "/")
replace(s) == [i \in 1..Len(s) |-> IF s[i] = "\\" THEN "/" ELSE s[i]]

\* Faulty variant of rfind: the first slash instead of the last.
find_first_slash(s) ==
    LET hits == {i \in 1..Len(s) : s[i] = "/"}
    IN  IF hits = {} THEN 0 ELSE CHOOSE i \in hits : \A j \in hits : i <= j

\* str::rfind('/'): the 1-based index of the last slash, 0 for None
rfind(s) ==
    LET hits == {i \in 1..Len(s) : s[i] = "/"}
    IN  IF hits = {} THEN 0 ELSE CHOOSE i \in hits : \A j \in hits : j <= i

\* str::contains("..")
contains_dotdot(s) == \E i \in 1..(Len(s) - 1) : s[i] = "." /\ s[i + 1] = "."

\* Faulty variant of find_end: the last terminator instead of the first.
find_end_last(s) ==
    LET hits == {i \in 1..Len(s) : s[i] \in END_OF_STRING_CHARS}
    IN  IF hits = {} THEN 0 ELSE CHOOSE i \in hits : \A j \in hits : j <= i

\* str::find(END_OF_STRING_CHARS): the 1-based index of the first one, 0 for None
find_end(s) ==
    LET hits == {i \in 1..Len(s) : s[i] \in END_OF_STRING_CHARS}
    IN  IF hits = {} THEN 0 ELSE CHOOSE i \in hits : \A j \in hits : i <= j

\* The directory-part test of sanitize_path (lines 10-21).
dir_part_rejected(t) ==
    LET idx == rfind(t)
    IN  idx > 0 /\ contains_dotdot(SubSeq(t, 1, idx - 1))

\* The truncation of sanitize_path (lines 23-29).
truncate_at_end(t) ==
    LET idx == find_end(t)
    IN  IF idx > 0 THEN SubSeq(t, 1, idx - 1) ELSE t

\* sanitize_path: [ok |-> TRUE, path |-> p] for Ok(p), [ok |-> FALSE, path |-> <<>>] for Err
sanitize_path(path) ==
    LET sanitized_path == replace(trim_matches(path))
    IN  IF dir_part_rejected(sanitized_path)
        THEN [ok |-> FALSE, path |-> <<>>]
        ELSE [ok |-> TRUE, path |-> truncate_at_end(sanitized_path)]

\* ------------------------------------------------------------- path helpers
\* The components of a string split at "/" hold ".." as one of them.
HasDotDotComponent(p) ==
    \E i \in 1..(Len(p) - 1) :
        /\ p[i] = "." /\ p[i + 1] = "."
        /\ (i = 1 \/ p[i - 1] = "/")
        /\ (i + 1 = Len(p) \/ p[i + 2] = "/")

\* Path::parent of a relative path string without a trailing slash: the text
\* before the last slash, the empty path when there is none.
ParentOf(p) == IF rfind(p) = 0 THEN <<>> ELSE SubSeq(p, 1, rfind(p) - 1)

\* The path itself and every ancestor directory of it (the empty path left out).
RECURSIVE SelfAndAncestors(_)
SelfAndAncestors(p) ==
    IF p = <<>> THEN {} ELSE {p} \cup SelfAndAncestors(ParentOf(p))


\* -------------------------------------------------------------- filesystem
\* A filesystem is [files |-> function from path to content, dirs |-> set of
\* paths]; the working directory is the empty path and always exists.
EmptyFs == [files |-> <<>>, dirs |-> {}]

IsFile(f, p) == p \in DOMAIN f.files
IsDir(f, p) == p \in f.dirs

PutFile(f, p, content) ==
    [f EXCEPT !.files = [q \in (DOMAIN f.files) \cup {p} |->
                            IF q = p THEN content ELSE f.files[q]]]

DropFile(f, p) ==
    [f EXCEPT !.files = [q \in (DOMAIN f.files) \ {p} |-> f.files[q]]]

\* fs::create_dir_all: Ok at once for the empty path; an error when the path
\* or one of its ancestors is a file; otherwise every missing directory of
\* the chain is made.
create_dir_all(f, p) ==
    IF \E a \in SelfAndAncestors(p) : IsFile(f, a)
    THEN [fs |-> f, ok |-> FALSE]
    ELSE [fs |-> [f EXCEPT !.dirs = f.dirs \cup SelfAndAncestors(p)], ok |-> TRUE]

\* File::create followed by the writes: an error for the empty path and for a
\* directory, otherwise the file holds exactly `content` (created or truncated).
file_create_write(f, p, content) ==
    IF p = <<>> \/ IsDir(f, p)
    THEN [fs |-> f, ok |-> FALSE]
    ELSE [fs |-> PutFile(f, p, content), ok |-> TRUE]

\* fs::rename(source, target) of a file: an error when the source is missing,
\* when the target is empty or a directory; the target is replaced otherwise.
\* (A source that is a directory does not arise: sources are orphan names.)
rename(f, source, target) ==
    IF ~IsFile(f, source) \/ target = <<>> \/ IsDir(f, target)
    THEN [fs |-> f, ok |-> FALSE]
    ELSE IF source = target
    THEN [fs |-> f, ok |-> TRUE]
    ELSE [fs |-> DropFile(PutFile(f, target, f.files[source]), source), ok |-> TRUE]

\* fs::remove_file
remove_file(f, p) ==
    IF IsFile(f, p) THEN [fs |-> DropFile(f, p), ok |-> TRUE]
    ELSE [fs |-> f, ok |-> FALSE]

\* "if let Some(parent) = Path::new(&sanitized_path).parent() { create_dir_all }":
\* the empty path has no parent.
create_parent(f, p) ==
    IF p = <<>> THEN [fs |-> f, ok |-> TRUE] ELSE create_dir_all(f, ParentOf(p))

create_file_with_content(f, content, target_path) ==
    LET s == sanitize_path(target_path)
        d == create_parent(f, s.path)
    IN  IF ~s.ok THEN [fs |-> f, ok |-> FALSE]
        ELSE IF ~d.ok THEN d
        ELSE file_create_write(d.fs, s.path, content)

move_file_to_target(f, source_path, target_path) ==
    LET s == sanitize_path(target_path)
        d == create_parent(f, s.path)
    IN  IF ~s.ok THEN [fs |-> f, ok |-> FALSE]
        ELSE IF ~d.ok THEN d
        ELSE rename(d.fs, source_path, s.path)

\* delete_file removes the path it is given, as given.
delete_file(f, file_path) == remove_file(f, file_path)

create_directory_structure(f, target_path) ==
    LET s == sanitize_path(target_path)
    IN  IF ~s.ok THEN [fs |-> f, ok |-> FALSE] ELSE create_dir_all(f, s.path)

\* The chunk loop of stream_asset_to_pathname: read up to chunk_size bytes,
\* stop at a read of 0 bytes, append what was read.
RECURSIVE stream_chunks(_, _, _)
stream_chunks(rest, written, chunk_size) ==
    LET bytes_read == IF Len(rest) < chunk_size THEN Len(rest) ELSE chunk_size
    IN  IF bytes_read = 0 THEN written
        ELSE stream_chunks(SubSeq(rest, bytes_read + 1, Len(rest)),
                           written \o SubSeq(rest, 1, bytes_read), chunk_size)

stream_asset_to_pathname(f, payload, target_path, chunk_size) ==
    LET s == sanitize_path(target_path)
        d == create_parent(f, s.path)
    IN  IF ~s.ok THEN [fs |-> f, ok |-> FALSE]
        ELSE IF ~d.ok THEN d
        ELSE file_create_write(d.fs, s.path, stream_chunks(payload, <<>>, chunk_size))

\* ------------------------------------------------------------- operations
\* A write operation: kind is "write" (create_file_with_content), "move",
\* "delete", "mkdir" or "stream"; path is its target as given (unsanitized),
\* src the source of a move, data the payload, chunk the chunk size.
Op(kind, path, src, data, chunk) ==
    [kind |-> kind, path |-> path, src |-> src, data |-> data, chunk |-> chunk]

Execute(f, op) ==
    CASE op.kind = "write"  -> create_file_with_content(f, op.data, op.path)
      [] op.kind = "move"   -> move_file_to_target(f, op.src, op.path)
      [] op.kind = "delete" -> delete_file(f, op.path)
      [] op.kind = "mkdir"  -> create_directory_structure(f, op.path)
      [] op.kind = "stream" -> stream_asset_to_pathname(f, op.data, op.path, op.chunk)

\* ------------------------------------------------------------------ inputs
\* Asset keys (the directory name of an asset's entries) and the destination
\* strings a pathname entry may hold: one the sanitizer changes ("../a"), one
\* with a parent directory ("d/f"), one the sanitizer rejects ("d/../f").
Keys == {<<"g">>, <<"h">>}
Dests == {<<".", ".", "/", "a">>, <<"d", "/", "f">>,
          <<"d", "/", ".", ".", "/", "f">>}
\* Payload sizes, budget caps (nothing fits; one small operation fits; a move
\* of nominal size KB and a small operation fit), stream thresholds (every
\* asset is streamed; the larger size is streamed and the smaller buffered)
\* and pool sizes.
Sizes == {1, 2}
Caps == {0, 1, KB + 1}
Thresholds == {0, 2}
Workers == {1, 2}
WorkerCounts == {0} \cup Workers
\* The characters of the strings given to the sanitizer.
SanChars == {"a", ".", "/", "\\", "LF", "CR", "NUL"}

\* The payload of the asset of key k: size bytes, each naming the key.
Payload(k, size) == [i \in 1..size |-> k]

\* Path::join of a directory and a file name, Path::parent of an entry path.
join(dir, leaf) == [dir |-> dir, leaf |-> leaf]
parent(path) == path.dir

\* The archive entries: <key>/asset, <key>/asset.meta, <key>/pathname.
AssetEntries == {[path |-> join(<<k>>, "asset"), size |-> n, folder |-> FALSE,
                  text |-> <<>>] : k \in Keys, n \in Sizes}
MetaEntries == {[path |-> join(<<k>>, "asset.meta"), size |-> 0, folder |-> b,
                 text |-> <<>>] : k \in Keys, b \in BOOLEAN}
PathnameEntries == {[path |-> join(<<k>>, "pathname"), size |-> 0,
                     folder |-> FALSE, text |-> d] : k \in Keys, d \in Dests}
Entries == AssetEntries \cup MetaEntries \cup PathnameEntries

\* Path::file_name of a directory: its last component; None (written <<>>)
\* for the empty path and for one that ends in "." or "..".
None == <<>>
file_name(dir) ==
    IF dir = <<>> \/ dir[Len(dir)] \in {<<".">>, <<".", ".">>}
    THEN None
    ELSE dir[Len(dir)]

\* extract_guid_from_path: the file name of the parent directory; the
\* unwrap() of a None file name panics.
extract_guid_from_path(path) == file_name(parent(path))
extract_guid_panics(path) == file_name(parent(path)) = None

\* PathBuf::from(&guid): the components of a string, split at "/".
RECURSIVE PathBufFrom(_)
PathBufFrom(str) ==
    LET hits == {i \in 1..Len(str) : str[i] = "/"}
        first == CHOOSE i \in hits : \A j \in hits : i <= j
    IN  IF str = <<>> THEN <<>>
        ELSE IF hits = {} THEN <<str>>
        ELSE IF first = 1 THEN PathBufFrom(Tail(str))
        ELSE <<SubSeq(str, 1, first - 1)>>
                 \o PathBufFrom(SubSeq(str, first + 1, Len(str)))

\* ------------------------------------------------------------------- state
VARIABLES
    cap,        \* MemoryTracker.max_buffer_memory
    threshold,  \* the stream threshold
    nworkers,   \* num_threads of ThreadPool::new
    used,       \* MemoryTracker.used_memory
    queue,      \* the channel: ids of the queued tasks, oldest first
    closed,     \* the sender has been dropped
    wpc,        \* per worker: "off", "recv", "run", "release", "exited"
    wtask,      \* per worker: the id of the task it holds, 0 for none
    fs,         \* the filesystem under the working directory
    warnings,   \* the warning events emitted so far
    scanned,    \* the entries the archive iterator has yielded, in order
    pathnames,  \* ExtractionContext.pathnames
    folders,    \* ExtractionContext.folders
    orphans,    \* ExtractionContext.orphaned_assets
    assets,     \* main.rs: the AssetMap of the single-pass extractor
    mainPC,     \* "scan", "folders", "orphans", "shutdown", "done"
    pending,    \* id of the refused operation the caller runs next, 0 for none
    oidx,       \* orphan resolution: index of the next OrphanRecord
    ftodo,      \* folder materialization: the pathnames entries left to visit
    oplog,      \* one record per operation created, indexed by its id
    aborted,    \* the passes that returned Err
    sanIn,      \* sanitizer check: the input string
    sanOut,     \* sanitizer check: the result, or NoResult
    sanAgain    \* sanitizer check: the result for the first result's path

NoResult == [ok |-> FALSE, path |-> <<"unset">>]

cfgVars == <<cap, threshold, nworkers>>
poolVars == <<used, queue, closed, wpc, wtask>>
ctxVars == <<scanned, pathnames, folders, orphans, assets>>
mainVars == <<mainPC, pending, oidx, ftodo, aborted>>
sanVars == <<sanIn, sanOut, sanAgain>>
vars == <<cfgVars, poolVars, ctxVars, mainVars, fs, warnings, oplog, sanVars>>

\* ------------------------------------------------------------ MemoryTracker
\* The counter, the cap and the sizes are u64.  The word is narrowed to
\* WordBits bits here (TLC's integers have 32): a value is in 0..U64_MAX and
\* an addition whose sum exceeds U64_MAX overflows.
WordBits == 30
U64_MAX == 2^WordBits - 1

\* u64 addition in a build without overflow checks.
wrapping_add(a, b) == (a + b) % (U64_MAX + 1)

\* u64 addition in a build with overflow checks panics in this case.
add_overflows(a, b) == a + b > U64_MAX

\* Faulty variants of can_allocate: one that admits every request, one that
\* refuses a request that fills the budget exactly, and one that compares
\* the request alone with the limit.
can_allocate_ignores_used(current_used, size, max_buffer_memory) ==
    ~(size > max_buffer_memory)

can_allocate_always(current_used, size, max_buffer_memory) == TRUE

can_allocate_strict(current_used, size, max_buffer_memory) ==
    ~(current_used + size >= max_buffer_memory)

\* can_allocate, as far as it returns: "current_used + size" is the u64 sum.
can_allocate(current_used, size, max_buffer_memory) ==
    ~(wrapping_add(current_used, size) > max_buffer_memory)

\* A call of can_allocate in a build with ("debug") or without ("release")
\* overflow checks: "true", "false", or "panic".
Builds == {"debug", "release"}
can_allocate_call(build, current_used, size, max_buffer_memory) ==
    IF build = "debug" /\ add_overflows(current_used, size) THEN "panic"
    ELSE IF can_allocate(current_used, size, max_buffer_memory) THEN "true"
    ELSE "false"

\* Faulty variant of reserve: the counter is not raised.
reserve_nothing(current_used, size) == current_used

reserve(current_used, size) == current_used + size

\* (An underflow of the counter shows as a negative value.)
release(current_used, size) == current_used - size

\* --------------------------------------------------------------- ThreadPool
\* The receiver lives in an Arc that only the workers hold: with no worker it
\* is dropped when ThreadPool::new returns and every send fails.
receiver_alive == \E w \in Workers : wpc[w] \notin {"off", "exited"}

\* Faulty variant of send_ok_result: a queued task is reported as refused.
send_ok_result_refused == FALSE

\* The value try_queue_task returns after a send that succeeded.
send_ok_result == TRUE

\* Faulty variant of try_queue_task: a failed send keeps the reservation.
try_queue_task_keeps(task_size) ==
    IF ~can_allocate(used, task_size, cap)
    THEN [fit |-> FALSE, queued |-> FALSE, ret |-> FALSE, used |-> used,
          rsv |-> 0, rel |-> 0]
    ELSE IF receiver_alive
    THEN [fit |-> TRUE, queued |-> TRUE, ret |-> send_ok_result,
          used |-> reserve(used, task_size), rsv |-> 1, rel |-> 0]
    ELSE [fit |-> TRUE, queued |-> FALSE, ret |-> FALSE,
          used |-> reserve(used, task_size), rsv |-> 1, rel |-> 0]

\* try_queue_task(task_size, task): whether the budget check passed, whether
\* the task was queued, the bool returned, the counter afterwards and the
\* number of reserve and release calls made.
try_queue_task(task_size) ==
    IF ~can_allocate(used, task_size, cap)
    THEN [fit |-> FALSE, queued |-> FALSE, ret |-> FALSE, used |-> used,
          rsv |-> 0, rel |-> 0]
    ELSE IF receiver_alive
    THEN [fit |-> TRUE, queued |-> TRUE, ret |-> send_ok_result,
          used |-> reserve(used, task_size), rsv |-> 1, rel |-> 0]
    ELSE [fit |-> TRUE, queued |-> FALSE, ret |-> FALSE,
          used |-> release(reserve(used, task_size), task_size),
          rsv |-> 1, rel |-> 1]

\* Faulty variant of wrapped_release: a failed task keeps its reservation.
wrapped_release_on_success(ok, task_size) == IF ok THEN task_size ELSE 0

\* What the wrapped task releases once the inner task has returned `ok`.
wrapped_release(ok, task_size) == task_size

\* Faulty variant of worker_after_task: a failed task leaves the worker hung.
worker_after_task_hangs(ok) == IF ok THEN "recv" ELSE "hung"

\* Faulty variant of worker_after_task: a failed task ends the worker.
worker_after_task_stops(ok) == IF ok THEN "recv" ELSE "exited"

\* Where a worker goes after a task that returned `ok`: it logs a failure
\* and loops.
worker_after_task(ok) == "recv"

\* ---------------------------------------------------------- operation log
\* The record kept for the operation with a given id: the operation, the size
\* given to try_queue_task, the call site (role) and asset key, whether it
\* went through try_queue_task (gated), the outcome of the budget check and
\* of the send, the bool returned, the reserve
\* and release calls made for it, the executions by a worker and inline, and
\* the result of the last execution ("none", "ok", "err").
LogEntry(op, size, role, key, gated, t, iexec, res) ==
    [op |-> op, size |-> size, role |-> role, key |-> key, gated |-> gated,
     fit |-> t.fit, queued |-> t.queued, ret |-> t.ret,
     rsv |-> t.rsv, rel |-> t.rel, wexec |-> 0, iexec |-> iexec, res |-> res]

NotGated == [fit |-> FALSE, queued |-> FALSE, ret |-> FALSE, used |-> used,
             rsv |-> 0, rel |-> 0]

Res(ok) == IF ok THEN "ok" ELSE "err"

\* The operation a caller runs itself after a refusal: a refused buffered
\* write is streamed from the buffer with the threshold as chunk size; a
\* move, delete or mkdir is run as it is.
Fallback(op) ==
    IF op.kind = "write"
    THEN Op("stream", op.path, op.src, op.data, threshold)
    ELSE op

\* The warning delete_file emits before it removes the file.
DeleteWarning(op) ==
    IF op.kind = "delete" THEN {[what |-> "delete_file", name |-> op.path]}
    ELSE {}

\* "if !thread_pool.try_queue_task(size, task) { <run it synchronously> }":
\* the call and its bookkeeping; a refused operation becomes pending and is
\* run by the caller in its next step (MainSync).
Submit(op, size, role, key) ==
    LET t == try_queue_task(size)
        id == Len(oplog) + 1
    IN  /\ used' = t.used
        /\ queue' = IF t.queued THEN Append(queue, id) ELSE queue
        /\ oplog' = Append(oplog, LogEntry(op, size, role, key, TRUE, t, 0, "none"))
        /\ pending' = IF t.ret THEN 0 ELSE id

\* The pass that follows when the pass at `pc` returns Err: a failed scan
\* yields no context, so both post-passes are skipped; a failed post-pass is
\* logged and the run goes on.
AfterAbort(pc) ==
    CASE pc = "scan"    -> "shutdown"
      [] pc = "folders" -> "orphans"
      [] pc = "orphans" -> "shutdown"

\* -------------------------------------------------------------------- scan
ScannedPaths == {scanned[i].path : i \in 1..Len(scanned)}

\* Faulty variant of streams_directly: a strict comparison.
streams_directly_strict(asset_size, stream_threshold) ==
    asset_size > stream_threshold

\* "asset_size >= context.stream_threshold": stream synchronously.
streams_directly(asset_size, stream_threshold) == asset_size >= stream_threshold

\* Faulty variant of is_folder: no key is ever taken for a folder.
is_folder_never(meta_path) == FALSE

\* ExtractionContext::is_folder
is_folder(meta_path) == meta_path \in folders

\* The size/budget routing of read_asset for a payload and a target; `role`
\* is "asset" for a known destination and "orphan" for a temporary name.
RouteAsset(key, data, asset_size, target, role) ==
    IF streams_directly(asset_size, threshold)
    THEN LET op == Op("stream", target, <<>>, data, threshold)
             r == Execute(fs, op)
         IN  /\ fs' = r.fs
             /\ oplog' = Append(oplog, LogEntry(op, asset_size, role, key,
                                                FALSE, NotGated, 1, Res(r.ok)))
             /\ mainPC' = IF r.ok THEN mainPC ELSE AfterAbort(mainPC)
             /\ aborted' = IF r.ok THEN aborted ELSE aborted \cup {mainPC}
             /\ UNCHANGED <<used, queue, pending>>
    ELSE /\ Submit(Op("write", target, <<>>, data, 0), asset_size, role, key)
         /\ UNCHANGED <<fs, mainPC, aborted>>

\* ExtractionContext::orphaned_count and ExtractionContext::has_orphaned_work
orphaned_count == Len(orphans)
has_orphaned_work == orphans # <<>>

\* Faulty variant of read_pathname: the destination is not recorded.
read_pathname_dropped(e) ==
    UNCHANGED <<pathnames, folders, orphans, used, queue, pending, fs, oplog,
                mainPC, aborted>>

\* Faulty variant of read_pathname: the new destination replaces the table.
read_pathname_forgets(e) ==
    LET asset_path == join(parent(e.path), "asset")
    IN  /\ pathnames' = [q \in {asset_path} |-> e.text]
        /\ UNCHANGED <<folders, orphans, used, queue, pending, fs, oplog,
                       mainPC, aborted>>

read_pathname(e) ==
    LET asset_path == join(parent(e.path), "asset")
    IN  /\ pathnames' = [q \in (DOMAIN pathnames) \cup {asset_path} |->
                            IF q = asset_path THEN e.text ELSE pathnames[q]]
        /\ UNCHANGED <<folders, orphans, used, queue, pending, fs, oplog,
                       mainPC, aborted>>

\* Faulty variant of read_metadata: every asset.meta flags its key a folder.
read_metadata_flags_all(e) ==
    /\ folders' = folders \cup {e.path}
    /\ UNCHANGED <<pathnames, orphans, used, queue, pending, fs, oplog,
                   mainPC, aborted>>

read_metadata(e) ==
    /\ folders' = IF e.folder THEN folders \cup {e.path} ELSE folders
    /\ UNCHANGED <<pathnames, orphans, used, queue, pending, fs, oplog,
                   mainPC, aborted>>

read_asset(e) ==
    LET path == e.path
        meta_path == join(parent(path), "asset.meta")
        key == extract_guid_from_path(path)
        data == Payload(key, e.size)
    IN  IF path \in DOMAIN pathnames
        THEN /\ RouteAsset(key, data, e.size, pathnames[path], "asset")
             /\ UNCHANGED <<pathnames, folders, orphans>>
        ELSE IF is_folder(meta_path)
        THEN UNCHANGED <<pathnames, folders, orphans, used, queue, pending,
                         fs, oplog, mainPC, aborted>>
        ELSE IF extract_guid_panics(path)
        THEN /\ mainPC' = "panicked"
             /\ UNCHANGED <<pathnames, folders, orphans, used, queue, pending,
                            fs, oplog, aborted>>
        ELSE LET orphan_name == extract_guid_from_path(path)
             IN  /\ orphans' = Append(orphans, orphan_name)
                 /\ RouteAsset(key, data, e.size, orphan_name, "orphan")
                 /\ UNCHANGED <<pathnames, folders>>

\* One iteration of the loop of process_archive_entries.
ScanEntry(e) ==
    /\ mainPC = "scan" /\ pending = 0
    /\ Len(scanned) < MaxEntries
    /\ e.path \notin ScannedPaths
    /\ scanned' = Append(scanned, e)
    /\ CASE e.path.leaf = "pathname"   -> read_pathname(e)
         [] e.path.leaf = "asset.meta" -> read_metadata(e)
         [] e.path.leaf = "asset"      -> read_asset(e)
    /\ UNCHANGED <<cfgVars, closed, wpc, wtask, warnings, oidx, ftodo, sanVars,
                   assets>>

\* The keys of pathnames whose asset.meta is folder-flagged.
FolderTargets ==
    {ap \in DOMAIN pathnames : is_folder(join(parent(ap), "asset.meta"))}

\* The archive iterator ends; process_archive_entries returns Ok.
EndScan ==
    /\ mainPC = "scan" /\ pending = 0
    /\ mainPC' = "folders"
    /\ ftodo' = FolderTargets
    /\ UNCHANGED <<cfgVars, poolVars, ctxVars, pending, oidx, aborted, fs,
                   warnings, oplog, sanVars>>

\* The caller runs the operation try_queue_task refused; an Err ends the pass.
MainSync ==
    /\ pending # 0
    /\ LET op == Fallback(oplog[pending].op)
           r == Execute(fs, op)
       IN  /\ fs' = r.fs
           /\ warnings' = warnings \cup DeleteWarning(op)
           /\ oplog' = [oplog EXCEPT ![pending].iexec = @ + 1,
                                     ![pending].res = Res(r.ok)]
           /\ mainPC' = IF r.ok THEN mainPC ELSE AfterAbort(mainPC)
           /\ aborted' = IF r.ok THEN aborted ELSE aborted \cup {mainPC}
    /\ pending' = 0
    /\ UNCHANGED <<cfgVars, poolVars, ctxVars, oidx, ftodo, sanVars>>

\* ----------------------------------------------------------- post-passes
\* One iteration of create_folder_structures that finds a folder-flagged key
\* (the HashMap is visited in no particular order).
FolderStep ==
    /\ mainPC = "folders" /\ pending = 0
    /\ \E asset_path \in ftodo :
        /\ ftodo' = ftodo \ {asset_path}
        /\ Submit(Op("mkdir", pathnames[asset_path], <<>>, <<>>, 0), 1, "folder",
                  extract_guid_from_path(asset_path))
    /\ UNCHANGED <<cfgVars, closed, wpc, wtask, ctxVars, mainPC, oidx, aborted,
                   fs, warnings, sanVars>>

\* create_folder_structures returns Ok; process_orphaned_assets is called.
FolderEnd ==
    /\ mainPC = "folders" /\ pending = 0 /\ ftodo = {}
    /\ mainPC' = "orphans"
    /\ UNCHANGED <<cfgVars, poolVars, ctxVars, pending, oidx, ftodo, aborted,
                   fs, warnings, oplog, sanVars>>

\* One iteration of the loop of process_orphaned_assets.
OrphanStep ==
    /\ mainPC = "orphans" /\ pending = 0
    /\ oidx <= Len(orphans)
    /\ LET guid == orphans[oidx]
           asset_path == join(PathBufFrom(guid), "asset")
       IN  IF asset_path \in DOMAIN pathnames
           THEN /\ Submit(Op("move", pathnames[asset_path], guid, <<>>, 0), KB,
                          "move", guid)
                /\ UNCHANGED warnings
           ELSE /\ warnings' = warnings \cup {[what |-> "no_pathname", name |-> guid]}
                /\ Submit(Op("delete", guid, <<>>, <<>>, 0), 1, "delete", guid)
    /\ oidx' = oidx + 1
    /\ UNCHANGED <<cfgVars, closed, wpc, wtask, ctxVars, mainPC, ftodo, aborted,
                   fs, sanVars>>

\* process_orphaned_assets returns Ok.
OrphanEnd ==
    /\ mainPC = "orphans" /\ pending = 0
    /\ oidx > Len(orphans)
    /\ mainPC' = "shutdown"
    /\ UNCHANGED <<cfgVars, poolVars, ctxVars, pending, oidx, ftodo, aborted,
                   fs, warnings, oplog, sanVars>>

\* shutdown(): drop(self.sender).
ShutdownClose ==
    /\ mainPC = "shutdown" /\ pending = 0 /\ ~closed
    /\ closed' = TRUE
    /\ UNCHANGED <<cfgVars, used, queue, wpc, wtask, ctxVars, mainVars, fs,
                   warnings, oplog, sanVars>>

\* shutdown(): every handle has been awaited.
ShutdownReturn ==
    /\ mainPC = "shutdown" /\ closed
    /\ \A w \in Workers : wpc[w] \in {"off", "exited"}
    /\ mainPC' = "done"
    /\ UNCHANGED <<cfgVars, poolVars, ctxVars, pending, oidx, ftodo, aborted,
                   fs, warnings, oplog, sanVars>>

\* ----------------------------------------------------------------- workers
\* rx.recv() returns Some(task): the oldest queued task.
WorkerRecv(w) ==
    /\ wpc[w] = "recv" /\ queue # <<>>
    /\ wtask' = [wtask EXCEPT ![w] = Head(queue)]
    /\ queue' = Tail(queue)
    /\ wpc' = [wpc EXCEPT ![w] = "run"]
    /\ UNCHANGED <<cfgVars, used, closed, ctxVars, mainVars, fs, warnings,
                   oplog, sanVars>>

\* The wrapped task runs the inner task.
WorkerRun(w) ==
    /\ wpc[w] = "run"
    /\ LET op == oplog[wtask[w]].op
           r == Execute(fs, op)
       IN  /\ fs' = r.fs
           /\ warnings' = warnings \cup DeleteWarning(op)
           /\ oplog' = [oplog EXCEPT ![wtask[w]].wexec = @ + 1,
                                     ![wtask[w]].res = Res(r.ok)]
    /\ wpc' = [wpc EXCEPT ![w] = "release"]
    /\ UNCHANGED <<cfgVars, used, queue, closed, wtask, ctxVars, mainVars,
                   sanVars>>

\* The wrapped task releases its reservation and returns; the worker loops.
WorkerRelease(w) ==
    /\ wpc[w] = "release"
    /\ LET id == wtask[w]
           ok == oplog[id].res = "ok"
           amount == wrapped_release(ok, oplog[id].size)
       IN  /\ used' = release(used, amount)
           /\ oplog' = [oplog EXCEPT ![id].rel = IF amount = oplog[id].size
                                                 THEN @ + 1 ELSE @]
           /\ wpc' = [wpc EXCEPT ![w] = worker_after_task(ok)]
    /\ wtask' = [wtask EXCEPT ![w] = 0]
    /\ UNCHANGED <<cfgVars, queue, closed, ctxVars, mainVars, fs, warnings,
                   sanVars>>

\* rx.recv() returns None: the channel is closed and empty.
WorkerExit(w) ==
    /\ wpc[w] = "recv" /\ queue = <<>> /\ closed
    /\ wpc' = [wpc EXCEPT ![w] = "exited"]
    /\ UNCHANGED <<cfgVars, used, queue, closed, wtask, ctxVars, mainVars, fs,
                   warnings, oplog, sanVars>>

\* ----------------------------------------------------------- specification
Init ==
    /\ cap \in Caps
    /\ threshold \in Thresholds
    /\ nworkers \in WorkerCounts
    /\ used = 0
    /\ queue = <<>>
    /\ closed = FALSE
    /\ wpc = [w \in Workers |-> IF w <= nworkers THEN "recv" ELSE "off"]
    /\ wtask = [w \in Workers |-> 0]
    /\ fs = EmptyFs
    /\ warnings = {}
    /\ scanned = <<>>
    /\ pathnames = <<>>
    /\ assets = <<>>
    /\ folders = {}
    /\ orphans = <<>>
    /\ mainPC = "scan"
    /\ pending = 0
    /\ oidx = 1
    /\ ftodo = {}
    /\ oplog = <<>>
    /\ aborted = {}
    /\ sanIn = <<>>
    /\ sanOut = NoResult
    /\ sanAgain = NoResult

Next ==
    \/ \E e \in Entries : ScanEntry(e)
    \/ EndScan
    \/ MainSync
    \/ FolderStep
    \/ FolderEnd
    \/ OrphanStep
    \/ OrphanEnd
    \/ ShutdownClose
    \/ ShutdownReturn
    \/ \E w \in Workers : WorkerRecv(w)
    \/ \E w \in Workers : WorkerRun(w)
    \/ \E w \in Workers : WorkerRelease(w)
    \/ \E w \in Workers : WorkerExit(w)

Spec == Init /\ [][Next]_vars

\* The steps of the caller (scan, post-passes, shutdown) and of worker w.
MainNext ==
    \/ \E e \in Entries : ScanEntry(e)
    \/ EndScan
    \/ MainSync
    \/ FolderStep
    \/ FolderEnd
    \/ OrphanStep
    \/ OrphanEnd
    \/ ShutdownClose
    \/ ShutdownReturn

WorkerNext(w) ==
    WorkerRecv(w) \/ WorkerRun(w) \/ WorkerRelease(w) \/ WorkerExit(w)

\* The run under fair scheduling: the caller and every worker task keep
\* taking steps while they can.
LiveSpec ==
    /\ Init /\ [][Next]_vars
    /\ WF_vars(MainNext)
    /\ \A w \in Workers : WF_vars(WorkerNext(w))

\* ------------------------------------------------- sanitizer specification
\* The sanitizer applied once to every string of at most MaxLen characters.
SanInputs == UNION {[1..n -> SanChars] : n \in 0..MaxLen}

SanInit ==
    /\ sanIn \in SanInputs
    /\ sanOut = NoResult
    /\ sanAgain = NoResult
    /\ cap = 0 /\ threshold = 0 /\ nworkers = 0
    /\ used = 0 /\ queue = <<>> /\ closed = FALSE
    /\ wpc = [w \in Workers |-> "off"]
    /\ wtask = [w \in Workers |-> 0]
    /\ fs = EmptyFs /\ warnings = {}
    /\ scanned = <<>> /\ pathnames = <<>> /\ folders = {} /\ orphans = <<>>
    /\ assets = <<>>
    /\ mainPC = "idle" /\ pending = 0 /\ oidx = 1 /\ ftodo = {}
    /\ oplog = <<>> /\ aborted = {}

SanCall ==
    /\ sanOut = NoResult
    /\ sanOut' = sanitize_path(sanIn)
    /\ UNCHANGED <<sanIn, sanAgain, cfgVars, poolVars, ctxVars, mainVars, fs, warnings,
                   oplog>>

\* The sanitizer applied to the path it returned.
SanRecall ==
    /\ sanOut.ok /\ sanAgain = NoResult
    /\ sanAgain' = sanitize_path(sanOut.path)
    /\ UNCHANGED <<sanIn, sanOut, cfgVars, poolVars, ctxVars, mainVars, fs,
                   warnings, oplog>>

SanNext == SanCall \/ SanRecall

SanSpec == SanInit /\ [][SanNext]_vars

\* ============================================================== properties
Done == mainPC = "done"

\* The entries scanned so far, the position of an entry path in the scan
\* (0 when it was not scanned) and the entry scanned at a path.
Scanned == {scanned[i] : i \in 1..Len(scanned)}
PosOf(path) ==
    IF path \in ScannedPaths
    THEN CHOOSE i \in 1..Len(scanned) : scanned[i].path = path
    ELSE 0
EntryAt(path) == scanned[PosOf(path)]
KeysScanned == {extract_guid_from_path(e.path) : e \in Scanned}
OrphanNames == {orphans[i] : i \in 1..Len(orphans)}
LogIds == 1..Len(oplog)

\* The archive holds the three entries of key k and nothing else, and its
\* metadata is not folder-flagged.
SingleAssetArchive(k) ==
    /\ ScannedPaths = {join(<<k>>, "asset"), join(<<k>>, "asset.meta"),
                       join(<<k>>, "pathname")}
    /\ ~EntryAt(join(<<k>>, "asset.meta")).folder

\* C1: for an archive of one key's data, metadata (not folder-flagged) and
\* destination entries, in whichever order they arrive, every complete run
\* ends with exactly one file, at the sanitized destination, holding the
\* original bytes, and nothing at the temporary orphan name.  (Stated for a
\* positive stream threshold and a destination the sanitizer accepts.)
C1_SameFinalFilesystem ==
    \A k \in Keys :
        (Done /\ SingleAssetArchive(k) /\ threshold > 0
              /\ sanitize_path(EntryAt(join(<<k>>, "pathname")).text).ok)
        => LET dest == sanitize_path(EntryAt(join(<<k>>, "pathname")).text).path
               size == EntryAt(join(<<k>>, "asset")).size
           IN  /\ DOMAIN fs.files = {dest}
               /\ fs.files[dest] = Payload(k, size)
               /\ ~IsFile(fs, sanitize_path(k).path)

\* C2: an asset scanned as an orphan whose archive holds no destination entry
\* for its key has, once orphan resolution has run and shutdown() has
\* returned, no file at its temporary path, and its warning was emitted.
\* (Stated for the orphans whose delete orphan resolution has issued.)
C2_UnresolvedOrphanDeleted ==
    \A k \in Keys :
        (Done /\ k \in OrphanNames
              /\ join(<<k>>, "pathname") \notin ScannedPaths
              /\ \E id \in LogIds : oplog[id].role = "delete" /\ oplog[id].key = k)
        => /\ ~IsFile(fs, sanitize_path(k).path)
           /\ \E w \in warnings : w.name = k

\* C10: whenever sanitize_path returns Ok(p), p has no ".." component and no
\* null, newline or carriage-return character.
C10_OutputFreeOfTraversal ==
    sanOut.ok =>
        /\ ~HasDotDotComponent(sanOut.path)
        /\ \A i \in 1..Len(sanOut.path) : sanOut.path[i] \notin END_OF_STRING_CHARS

\* Key k is folder-flagged and has a destination entry the sanitizer accepts.
FolderKeyWithDest(k) ==
    /\ join(<<k>>, "asset.meta") \in ScannedPaths
    /\ EntryAt(join(<<k>>, "asset.meta")).folder
    /\ join(<<k>>, "pathname") \in ScannedPaths
    /\ sanitize_path(EntryAt(join(<<k>>, "pathname")).text).ok

DestOf(k) == sanitize_path(EntryAt(join(<<k>>, "pathname")).text).path

\* The data entry of k is absent, or arrives after asset.meta and before pathname.
DataAbsentOrBetween(k) ==
    \/ PosOf(join(<<k>>, "asset")) = 0
    \/ /\ PosOf(join(<<k>>, "asset.meta")) < PosOf(join(<<k>>, "asset"))
       /\ PosOf(join(<<k>>, "asset")) < PosOf(join(<<k>>, "pathname"))

\* C3: a folder-flagged key with a destination entry (one the sanitizer
\* accepts) ends, in any arrival order of its entries and with or without a
\* data entry, with a directory at the sanitized destination and no
\* OrphanRecord for the key.
C3_FolderKeyAnyOrder ==
    \A k \in Keys :
        (Done /\ FolderKeyWithDest(k))
        => IsDir(fs, DestOf(k)) /\ k \notin OrphanNames

\* The arrival orders in which the directory is made: in an archive that
\* holds the entries of one folder-flagged key only, with a data entry that
\* is absent or arrives after asset.meta and before pathname, the run ends
\* with a directory at the sanitized destination and no OrphanRecord.
FolderKeyDirectoryInOrder ==
    \A k \in Keys :
        (Done /\ KeysScanned = {k} /\ FolderKeyWithDest(k) /\ DataAbsentOrBetween(k))
        => IsDir(fs, DestOf(k)) /\ orphans = <<>>

FolderKeyDirectoryReached ==
    \E k \in Keys :
        /\ Done /\ KeysScanned = {k} /\ FolderKeyWithDest(k)
        /\ PosOf(join(<<k>>, "asset")) = 2
        /\ PosOf(join(<<k>>, "pathname")) = 3
        /\ IsDir(fs, DestOf(k)) /\ orphans = <<>>

\* The operations admitted by try_queue_task and not yet completed: those in
\* the queue and those a worker holds.
InFlight ==
    {queue[i] : i \in 1..Len(queue)} \cup ({wtask[w] : w \in Workers} \ {0})

RECURSIVE SumSizes(_)
SumSizes(ids) ==
    IF ids = {} THEN 0
    ELSE LET id == CHOOSE x \in ids : TRUE
         IN  oplog[id].size + SumSizes(ids \ {id})

\* C4: the sizes of the admitted, not yet completed operations sum to at most
\* the cap plus the size of one task.
C4_InFlightWithinCap ==
    \/ InFlight = {}
    \/ \E id \in InFlight : SumSizes(InFlight) <= cap + oplog[id].size

C4_Witness ==
    /\ Cardinality(InFlight) >= 2
    /\ SumSizes(InFlight) = cap

\* The ids of the operations created by the current step.
NewIds == (Len(oplog) + 1)..Len(oplog')

\* The current step scans an asset entry at or above the stream threshold.
ScansLargeAsset ==
    /\ Len(scanned') = Len(scanned) + 1
    /\ scanned'[Len(scanned')].path.leaf = "asset"
    /\ scanned'[Len(scanned')].size >= threshold

\* C5: processing an asset at or above the stream threshold leaves the budget
\* counter and the queue unchanged and makes no try_queue_task call, whatever
\* the cap, for a known destination and for an orphan.
C5_LargeAssetNoBudget ==
    [][ScansLargeAsset =>
          /\ used' = used /\ queue' = queue /\ pending' = pending
          /\ \A id \in NewIds : /\ ~oplog'[id].gated
                                /\ oplog'[id].rsv = 0 /\ oplog'[id].rel = 0]_vars

C5_Witness ==
    /\ cap = 0 /\ threshold = 2 /\ used = 0 /\ queue = <<>>
    /\ \E i, j \in LogIds :
        /\ oplog[i].role = "asset" /\ oplog[i].size >= threshold
        /\ oplog[i].res = "ok" /\ ~oplog[i].gated
        /\ oplog[j].role = "orphan" /\ oplog[j].size >= threshold
        /\ oplog[j].res = "ok" /\ ~oplog[j].gated

\* A try_queue_task call of the current step is refused exactly when the
\* budget check fails.
RefusedIffOverBudget ==
    \A id \in NewIds :
        oplog'[id].gated =>
            (~oplog'[id].ret <=> used + oplog'[id].size > cap)

\* ... exactly when the budget check fails or no worker holds the receiver.
RefusedIffOverBudgetOrNoReceiver ==
    \A id \in NewIds :
        oplog'[id].gated =>
            (~oplog'[id].ret <=> (used + oplog'[id].size > cap \/ ~receiver_alive))

\* A refused operation is the caller's next thing to do, and until the caller
\* has run it, it scans no entry, visits no record and issues no operation;
\* what it then runs has the effect of the refused operation.
RefusedRunsInline ==
    /\ \A id \in NewIds : (oplog'[id].gated /\ ~oplog'[id].ret) => pending' = id
    /\ pending # 0 =>
        /\ scanned' = scanned /\ oidx' = oidx /\ ftodo' = ftodo
        /\ Len(oplog') = Len(oplog)
        /\ \/ pending' = pending /\ oplog'[pending].iexec = oplog[pending].iexec
           \/ /\ pending' = 0
              /\ oplog'[pending].iexec = oplog[pending].iexec + 1
              /\ fs' = Execute(fs, oplog[pending].op).fs
              /\ oplog'[pending].res = Res(Execute(fs, oplog[pending].op).ok)

\* C6 as claimed: try_queue_task refuses exactly when budget admission fails,
\* and every call site then performs the same operation synchronously before
\* it proceeds.
C6_RefusalOnlyOverBudget ==
    [][RefusedIffOverBudget /\ RefusedRunsInline]_vars

\* C6 as amended: try_queue_task refuses exactly when budget admission fails
\* or the pool has no worker holding the receiver, and every call site then
\* performs the same operation synchronously before it proceeds.
C6_RefusalAndFallback ==
    [][RefusedIffOverBudgetOrNoReceiver /\ RefusedRunsInline]_vars

C6_Witness ==
    /\ nworkers > 0 /\ pending = 0
    /\ \E i, j \in LogIds :
        /\ oplog[i].role = "orphan" /\ oplog[i].gated /\ ~oplog[i].fit
        /\ ~oplog[i].ret /\ oplog[i].iexec = 1 /\ oplog[i].res = "ok"
        /\ oplog[j].role = "move" /\ oplog[j].gated /\ ~oplog[j].fit
        /\ ~oplog[j].ret /\ oplog[j].iexec = 1 /\ oplog[j].res = "ok"

\* C7: no operation is run by a worker twice, and when shutdown() has
\* returned the queue is empty and every operation for which try_queue_task
\* returned true was run by a worker once, those queued behind a failed
\* operation included.
C7_AdmittedRunOnce ==
    /\ \A id \in LogIds : oplog[id].wexec <= 1
    /\ Done =>
        /\ queue = <<>>
        /\ \A id \in LogIds : (oplog[id].gated /\ oplog[id].ret) => oplog[id].wexec = 1

C7_Witness ==
    /\ Done /\ nworkers = 1
    /\ \E i, j \in LogIds :
        /\ i < j
        /\ oplog[i].ret /\ oplog[i].wexec = 1 /\ oplog[i].res = "err"
        /\ oplog[j].ret /\ oplog[j].wexec = 1

\* C8: every operation is executed at most once at any time, and when the
\* run is over exactly once: by a worker if try_queue_task admitted it, by
\* the caller if it was refused, never by both and never by neither.
C8_ExecutedExactlyOnce ==
    /\ \A id \in LogIds : oplog[id].wexec + oplog[id].iexec <= 1
    /\ Done =>
        \A id \in LogIds :
            /\ oplog[id].wexec + oplog[id].iexec = 1
            /\ oplog[id].gated => (oplog[id].wexec = 1 <=> oplog[id].ret)
            /\ oplog[id].gated => (oplog[id].iexec = 1 <=> ~oplog[id].ret)

C8_Witness ==
    /\ Done
    /\ \E i, j \in LogIds :
        /\ oplog[i].op.kind = "write" /\ oplog[i].ret
        /\ oplog[i].wexec = 1 /\ oplog[i].iexec = 0
        /\ oplog[j].op.kind = "write" /\ oplog[j].gated /\ ~oplog[j].ret
        /\ oplog[j].wexec = 0 /\ oplog[j].iexec = 1

\* C9: every reserve is matched by at most one release of the same size, a
\* passed budget check reserves once, and when shutdown() has returned every
\* reserve has its release (the task succeeded, failed, or could not be
\* queued) and the counter is 0.
C9_ReserveReleaseBalanced ==
    /\ \A id \in LogIds :
        /\ oplog[id].rel <= oplog[id].rsv /\ oplog[id].rsv <= 1
        /\ oplog[id].rsv = (IF oplog[id].gated /\ oplog[id].fit THEN 1 ELSE 0)
    /\ Done =>
        /\ used = 0
        /\ \A id \in LogIds : oplog[id].rel = oplog[id].rsv

C9_Witness ==
    /\ Done /\ used = 0
    /\ \E i, j \in LogIds :
        /\ oplog[i].wexec = 1 /\ oplog[i].res = "err"
        /\ oplog[i].rsv = 1 /\ oplog[i].rel = 1
        /\ oplog[j].wexec = 1 /\ oplog[j].res = "ok"
        /\ oplog[j].rsv = 1 /\ oplog[j].rel = 1

C9_WitnessNotQueued ==
    /\ Done /\ used = 0
    /\ \E i \in LogIds :
        /\ oplog[i].fit /\ ~oplog[i].queued
        /\ oplog[i].rsv = 1 /\ oplog[i].rel = 1

C10_Witness ==
    /\ sanOut.ok
    /\ \E i \in 1..Len(sanIn) : sanIn[i] \in END_OF_STRING_CHARS
    /\ Len(sanOut.path) > 0

\* ---------------------------------------- sanitizer: C11, C18 and C19
\* C11: sanitize_path is idempotent on its outputs: when it returned Ok(p)
\* for the input, it returns Ok(p) for p.
C11_Idempotent ==
    (sanOut.ok /\ sanAgain # NoResult) => sanAgain = sanOut

\* The input as the claims describe it after the first two steps: the
\* characters between the first and the last character outside the trim set
\* (nothing when there is none), every backslash written as a slash.
Kept(s) == {i \in 1..Len(s) : s[i] \notin TRIM_CHARS}
FirstKept(s) == CHOOSE i \in Kept(s) : \A j \in Kept(s) : i <= j
LastKept(s) == CHOOSE i \in Kept(s) : \A j \in Kept(s) : j <= i
TrimmedAndReplaced(s) ==
    IF Kept(s) = {} THEN <<>>
    ELSE [i \in 1..(LastKept(s) - FirstKept(s) + 1) |->
            IF s[FirstKept(s) + i - 1] = "\\" THEN "/"
            ELSE s[FirstKept(s) + i - 1]]

\* The text before the last slash of t contains "..": two adjacent dots with
\* a slash somewhere after them.
DotDotBeforeLastSlash(t) ==
    \E i \in 1..Len(t), k \in 1..Len(t) :
        /\ i + 1 < k
        /\ t[i] = "." /\ t[i + 1] = "." /\ t[k] = "/"

\* C18: sanitize_path returns an error exactly when, after the trimming and
\* the replacement of backslashes, the text before the last slash contains
\* "..", and Ok in every other case.
C18_ErrorIffDotDotInDirPart ==
    sanOut # NoResult =>
        (~sanOut.ok <=> DotDotBeforeLastSlash(TrimmedAndReplaced(sanIn)))

C18_Witness ==
    /\ sanOut # NoResult /\ ~sanOut.ok
    /\ sanIn[1] \in TRIM_CHARS
    /\ \E i \in 1..Len(sanIn) : sanIn[i] = "\\"

\* C19: whenever sanitize_path returns Ok(p), p is the trimmed input with
\* backslashes replaced, cut off before its first NUL, LF or CR.
C19_OkValue ==
    sanOut.ok =>
        LET t == TrimmedAndReplaced(sanIn)
            p == sanOut.path
        IN  /\ Len(p) <= Len(t)
            /\ \A i \in 1..Len(p) : p[i] = t[i] /\ t[i] \notin END_OF_STRING_CHARS
            /\ Len(p) < Len(t) => t[Len(p) + 1] \in END_OF_STRING_CHARS

C19_Witness ==
    /\ sanOut.ok
    /\ Len(sanIn) = MaxLen
    /\ sanIn[1] = "." /\ sanIn[2] = "." /\ sanIn[3] = "/"
    /\ \E i \in 1..Len(sanOut.path) : sanOut.path[i] = "/"
    /\ \E i, j \in 1..Len(sanIn) :
        i < j /\ sanIn[i] \in END_OF_STRING_CHARS /\ sanIn[j] \in END_OF_STRING_CHARS
    /\ Len(sanOut.path) > 0

\* --------------------------------------------------- scan: C12, C15-C17
\* C12: a failure confined to one asset during the scan (a rejected
\* destination, a failed write) abandons that write only: the scan is not
\* ended by it, whether the write was queued or run synchronously.
C12_ScanSurvivesAssetFailure ==
    \A id \in LogIds :
        (oplog[id].role \in {"asset", "orphan"} /\ oplog[id].res = "err")
        => "scan" \notin aborted

\* The payload bytes held in memory: by the scanner for the refused
\* operation it is about to run itself, and by the queued or running
\* operations.
BufferedBytes ==
    (IF pending # 0 THEN Len(oplog[pending].op.data) ELSE 0)
    + SumSizes({id \in InFlight : oplog[id].op.data # <<>>})

\* C15: at every moment the payload bytes held in memory by the scanner and
\* by the not yet completed queued operations are covered by the reserved
\* budget: a payload is buffered only once its admission is granted.
C15_BufferedWithinReservation == BufferedBytes <= used

\* The asset entry at position i of the scan was read when no destination
\* entry of its key had been read and no folder-flagged asset.meta of its key.
ReadAsOrphan(i) ==
    /\ scanned[i].path.leaf = "asset"
    /\ ~\E j \in 1..(i - 1) :
            scanned[j].path = join(parent(scanned[i].path), "pathname")
    /\ ~\E j \in 1..(i - 1) :
            /\ scanned[j].path = join(parent(scanned[i].path), "asset.meta")
            /\ scanned[j].folder

RECURSIVE OrphansUpTo(_)
OrphansUpTo(n) ==
    IF n = 0 THEN <<>>
    ELSE IF ReadAsOrphan(n)
    THEN Append(OrphansUpTo(n - 1), extract_guid_from_path(scanned[n].path))
    ELSE OrphansUpTo(n - 1)

\* C16: the orphan list holds exactly one record, in encounter order, for
\* each asset entry read while its key had no destination and was not
\* folder-flagged; orphaned_count is their number and has_orphaned_work is
\* true iff it is positive.
C16_OrphanListExact ==
    /\ orphans = OrphansUpTo(Len(scanned))
    /\ orphaned_count = Cardinality({i \in 1..Len(scanned) : ReadAsOrphan(i)})
    /\ has_orphaned_work <=> (\E i \in 1..Len(scanned) : ReadAsOrphan(i))

C16_Witness ==
    /\ mainPC # "scan" /\ "scan" \notin aborted
    /\ Cardinality({i \in 1..Len(scanned) : scanned[i].path.leaf = "asset"}) = 2
    /\ orphaned_count = 1 /\ has_orphaned_work

C16_WitnessTwo ==
    /\ mainPC # "scan" /\ "scan" \notin aborted
    /\ orphaned_count = 2 /\ orphans[1] # orphans[2]

\* The destination text read for the key of the entry at `path`, as a set
\* (empty when no pathname entry of the key has been scanned).
DestRead(path) ==
    {scanned[j].text : j \in {i \in 1..Len(scanned) :
                                scanned[i].path = join(parent(path), "pathname")}}

\* The current step scans an asset entry whose destination entry was scanned.
ScansAssetAfterDest ==
    /\ Len(scanned') = Len(scanned) + 1
    /\ scanned'[Len(scanned')].path.leaf = "asset"
    /\ DestRead(scanned'[Len(scanned')].path) # {}

\* Every asset entry scanned so far follows the destination entry of its key.
AllDataAfterDest ==
    \A i \in 1..Len(scanned) :
        scanned[i].path.leaf = "asset" =>
            \E j \in 1..(i - 1) :
                scanned[j].path = join(parent(scanned[i].path), "pathname")

\* C17: an asset entry scanned after the destination entry of its key gets
\* one write, queued or run by the scanner, aimed at that destination, and no
\* OrphanRecord; when every data entry follows its destination entry the
\* orphan list is empty.
C17_KnownDestinationDirect ==
    [][/\ ScansAssetAfterDest =>
            /\ orphans' = orphans
            /\ Cardinality(NewIds) = 1
            /\ \A id \in NewIds :
                /\ oplog'[id].role = "asset"
                /\ oplog'[id].op.kind \in {"write", "stream"}
                /\ {oplog'[id].op.path} = DestRead(scanned'[Len(scanned')].path)
                /\ \/ oplog'[id].iexec = 1
                   \/ pending' = id
                   \/ \E i \in 1..Len(queue') : queue'[i] = id
       /\ AllDataAfterDest' => orphans' = <<>>]_vars

C17_Witness ==
    /\ Done /\ AllDataAfterDest /\ orphans = <<>> /\ Len(scanned) = MaxEntries
    /\ \E id \in LogIds :
        /\ oplog[id].role = "asset" /\ oplog[id].res = "ok"
        /\ oplog[id].wexec = 1
        /\ IsFile(fs, sanitize_path(oplog[id].op.path).path)

\* ------------------------------------------------------ orphans: C20
\* C20: whenever the move or the delete of an orphan has begun to execute,
\* the write of that orphan's temporary file has been executed.
C20_WriteBeforeResolve ==
    \A i, j \in LogIds :
        (/\ oplog[i].role = "orphan"
         /\ oplog[j].role \in {"move", "delete"}
         /\ oplog[j].key = oplog[i].key
         /\ oplog[j].wexec + oplog[j].iexec > 0)
        => oplog[i].wexec + oplog[i].iexec > 0

\* ------------------------------------------- file operations: C13
\* The file operations applied in a row to an empty working directory, with
\* the arguments their call sites give them: an orphan name is the name of
\* an entry's directory (one component; ".g" is one the sanitizer changes),
\* a destination is the text of a pathname entry.
OrphanNameArgs == {<<"g">>, <<".", "g">>}

FileOps ==
    {Op("write", t, <<>>, <<"x">>, 0) : t \in Dests \cup OrphanNameArgs}
    \cup {Op("stream", t, <<>>, <<"x">>, 1) : t \in Dests \cup OrphanNameArgs}
    \cup {Op("mkdir", t, <<>>, <<>>, 0) : t \in Dests}
    \cup {Op("move", t, g, <<>>, 0) : t \in Dests, g \in OrphanNameArgs}
    \cup {Op("delete", g, <<>>, <<>>, 0) : g \in OrphanNameArgs}

FileOpInit ==
    /\ mainPC = "fileop"
    /\ fs = EmptyFs /\ oplog = <<>> /\ warnings = {}
    /\ cap = 0 /\ threshold = 0 /\ nworkers = 0
    /\ used = 0 /\ queue = <<>> /\ closed = FALSE
    /\ wpc = [w \in Workers |-> "off"]
    /\ wtask = [w \in Workers |-> 0]
    /\ scanned = <<>> /\ pathnames = <<>> /\ folders = {} /\ orphans = <<>>
    /\ assets = <<>>
    /\ pending = 0 /\ oidx = 1 /\ ftodo = {} /\ aborted = {}
    /\ sanIn = <<>> /\ sanOut = NoResult /\ sanAgain = NoResult

FileOpStep ==
    /\ mainPC = "fileop" /\ Len(oplog) < MaxOps
    /\ \E op \in FileOps :
        LET r == Execute(fs, op)
        IN  /\ fs' = r.fs
            /\ warnings' = warnings \cup DeleteWarning(op)
            /\ oplog' = Append(oplog, LogEntry(op, 0, "fileop", <<>>, FALSE,
                                               NotGated, 1, Res(r.ok)))
    /\ UNCHANGED <<cfgVars, poolVars, ctxVars, mainVars, sanVars>>

FileOpNext == FileOpStep

FileOpSpec == FileOpInit /\ [][FileOpNext]_vars

\* A file operation that passes every path it creates, overwrites, renames
\* or removes through the sanitizer and acts at the results only.
ActsAtSanitized(f, op) ==
    LET t == sanitize_path(op.path)
        g == sanitize_path(op.src)
        d == create_parent(f, t.path)
    IN  IF ~t.ok \/ (op.kind = "move" /\ ~g.ok) THEN [fs |-> f, ok |-> FALSE]
        ELSE CASE op.kind = "delete" -> remove_file(f, t.path)
               [] op.kind = "mkdir"  -> create_dir_all(f, t.path)
               [] op.kind = "move"   ->
                    IF d.ok THEN rename(d.fs, g.path, t.path) ELSE d
               [] op.kind \in {"write", "stream"} ->
                    IF d.ok THEN file_create_write(d.fs, t.path, op.data) ELSE d

\* C13: every file operation (create with bytes, move, delete, make
\* directory, stream) passes the path it is about to create, overwrite,
\* rename or remove through sanitize_path and touches the filesystem at the
\* sanitized result only.
C13_OperationsActAtSanitizedPath ==
    [][Len(oplog') = Len(oplog) + 1 =>
          LET op == oplog'[Len(oplog')].op
          IN  /\ fs' = ActsAtSanitized(fs, op).fs
              /\ oplog'[Len(oplog')].res = Res(ActsAtSanitized(fs, op).ok)]_vars

\* ------------------------------------------------- termination: C14
\* The steps left to a run, counted generously: the passes still to come,
\* the entries, folder targets and OrphanRecords still to visit, the refused
\* operation still to run, the close of the queue, and for the workers the
\* receive, run and release of every queued task and their exit.
PhaseRank ==
    CASE mainPC = "scan"     -> 4
      [] mainPC = "folders"  -> 3
      [] mainPC = "orphans"  -> 2
      [] mainPC = "shutdown" -> 1
      [] OTHER               -> 0

WorkerRank(w) ==
    (CASE wpc[w] = "run" -> 2 [] wpc[w] = "release" -> 1 [] OTHER -> 0)
    + (IF wpc[w] \in {"off", "exited"} THEN 0 ELSE 1)

Rank ==
    PhaseRank * 100 * (MaxEntries + 1)
    + 30 * (MaxEntries - Len(scanned))
    + 10 * Cardinality(ftodo)
    + 10 * (Len(orphans) + 1 - oidx)
    + (IF pending # 0 THEN 1 ELSE 0)
    + (IF closed THEN 0 ELSE 1)
    + 3 * Len(queue)
    + WorkerRank(1) + WorkerRank(2)

\* MainSync and WorkerRun can be taken: their guard holds and the operation
\* they run is one Execute is defined for.
OpKinds == {"write", "move", "delete", "mkdir", "stream"}
MainSyncReady == pending \in LogIds /\ oplog[pending].op.kind \in OpKinds
WorkerRunReady(w) ==
    wpc[w] = "run" /\ wtask[w] \in LogIds /\ oplog[wtask[w]].op.kind \in OpKinds

\* Some step is possible: for the caller (a refused operation is run at once,
\* the scan can end, a post-pass can go on or end, shutdown can close the
\* queue or return) or for a worker.
CanStep ==
    \/ MainSyncReady
    \/ ENABLED (EndScan \/ FolderStep \/ FolderEnd \/ OrphanStep \/ OrphanEnd
                \/ ShutdownClose \/ ShutdownReturn)
    \/ \E w \in Workers :
        \/ WorkerRunReady(w)
        \/ ENABLED (WorkerRecv(w) \/ WorkerRelease(w) \/ WorkerExit(w))

\* C14: the run always terminates under fair scheduling, for every cap,
\* threshold and worker count: no state before the return of shutdown() is
\* a deadlock (a refusal leaves the caller its synchronous step, the scan can
\* end, the workers can drain the closed queue and exit), and every step
\* lowers the number of steps left, so no run goes on forever.
C14_RunTerminates ==
    /\ [](Done \/ CanStep)
    /\ [](Rank >= 0)
    /\ [][Rank' < Rank]_vars

C14_Witness ==
    /\ Done /\ nworkers = 2 /\ cap = 1 /\ Rank = 0
    /\ \E i, j \in LogIds :
        /\ oplog[i].gated /\ ~oplog[i].fit /\ oplog[i].iexec = 1
        /\ oplog[j].ret /\ oplog[j].wexec = 1 /\ oplog[j].res = "err"

\* ------------------------------------------------- budget: C25, C26, C27
\* C25: the budget counter never exceeds the cap.
C25_UsedWithinCap == used <= cap

C25_Witness ==
    /\ cap = KB + 1 /\ used = cap
    /\ Cardinality(InFlight) = 2

\* C26: the budget counter is the sum of the sizes given to try_queue_task
\* for the operations it admitted whose queued task (the operation followed
\* by its release) has not finished, and it is never negative.
C26_UsedIsInFlightSum ==
    /\ used = SumSizes(InFlight)
    /\ used >= 0

C26_Witness ==
    /\ Cardinality(InFlight) = 2 /\ used = KB + 1
    /\ \E w \in Workers : wpc[w] = "run"
    /\ \E id \in LogIds : oplog[id].rsv = 1 /\ oplog[id].rel = 1 /\ oplog[id].wexec = 1

\* No worker holds the receiving side of the queue.
NoReceiver == \A w \in Workers : wpc[w] \in {"off", "exited"}

\* C27: a try_queue_task call that passes the budget check while no worker
\* holds the receiving side of the queue reserves and releases once, returns
\* refusal, does not run the operation, and leaves the counter as it was.
C27_SendFailureReleases ==
    [][\A id \in NewIds :
          (oplog'[id].gated /\ used + oplog'[id].size <= cap /\ NoReceiver)
          => /\ oplog'[id].rsv = 1 /\ oplog'[id].rel = 1
             /\ ~oplog'[id].ret /\ ~oplog'[id].queued
             /\ oplog'[id].wexec = 0 /\ oplog'[id].iexec = 0
             /\ oplog'[id].res = "none"
             /\ fs' = fs /\ queue' = queue
             /\ used' = used]_vars

C27_Witness ==
    /\ nworkers = 0 /\ cap = KB + 1 /\ used = 0 /\ Done
    /\ \E i, j \in LogIds :
        /\ oplog[i].role = "orphan" /\ oplog[i].fit /\ ~oplog[i].ret
        /\ oplog[i].rsv = 1 /\ oplog[i].rel = 1 /\ oplog[i].iexec = 1
        /\ oplog[j].role = "move" /\ oplog[j].fit /\ ~oplog[j].ret
        /\ oplog[j].rsv = 1 /\ oplog[j].rel = 1 /\ oplog[j].iexec = 1

\* ------------------------------------------------- scan routing: C28
\* The current step scans an asset entry.
ScansAsset ==
    /\ Len(scanned') = Len(scanned) + 1
    /\ scanned'[Len(scanned')].path.leaf = "asset"

\* A folder-flagged asset.meta of the key of the entry at `path` was scanned.
FlagRead(path) ==
    \E j \in 1..Len(scanned) :
        /\ scanned[j].path = join(parent(path), "asset.meta")
        /\ scanned[j].folder

\* The current step issues one write of the scanned asset's payload to
\* `target` with the given role: run by the scanner, left to it after a
\* refusal, or queued.
IssuesOneWrite(e, target, role) ==
    /\ Cardinality(NewIds) = 1
    /\ \A id \in NewIds :
        /\ oplog'[id].role = role
        /\ oplog'[id].op.kind \in {"write", "stream"}
        /\ oplog'[id].op.path = target
        /\ oplog'[id].op.data = Payload(extract_guid_from_path(e.path), e.size)
        /\ \/ oplog'[id].iexec = 1
           \/ pending' = id
           \/ queue' = Append(queue, id)

\* C28: for an asset data entry the scanner does exactly one of three
\* things.  Destination known (folder-flagged or not): one write to that
\* destination and no OrphanRecord.  Destination unknown and key not
\* folder-flagged: one write to the temporary name and one OrphanRecord
\* appended.  Destination unknown and key folder-flagged: no write, no
\* OrphanRecord, no budget or queue call.
C28_ThreeWayRouting ==
    [][ScansAsset =>
        LET e == scanned'[Len(scanned')]
            known == DestRead(e.path) # {}
            flagged == FlagRead(e.path)
            key == extract_guid_from_path(e.path)
        IN  /\ known =>
                /\ \E d \in DestRead(e.path) : IssuesOneWrite(e, d, "asset")
                /\ orphans' = orphans
            /\ (~known /\ ~flagged) =>
                /\ IssuesOneWrite(e, key, "orphan")
                /\ orphans' = Append(orphans, key)
            /\ (~known /\ flagged) =>
                /\ oplog' = oplog /\ orphans' = orphans
                /\ used' = used /\ queue' = queue /\ pending' = pending
                /\ fs' = fs]_vars

\* A folder-flagged key's data is skipped and another key's data is written
\* as an orphan in one scan.
C28_Witness ==
    /\ Len(scanned) = 3 /\ mainPC = "scan"
    /\ scanned[1].path.leaf = "asset.meta" /\ scanned[1].folder
    /\ scanned[2].path = join(parent(scanned[1].path), "asset")
    /\ scanned[3].path.leaf = "asset"
    /\ Len(oplog) = 1 /\ oplog[1].role = "orphan"
    /\ orphans = <<extract_guid_from_path(scanned[3].path)>>

\* The data of a folder-flagged key with a known destination is written there.
C28_WitnessKnownFolder ==
    /\ Len(scanned) = 3
    /\ scanned[1].path.leaf = "asset.meta" /\ scanned[1].folder
    /\ scanned[2].path = join(parent(scanned[1].path), "pathname")
    /\ scanned[3].path = join(parent(scanned[1].path), "asset")
    /\ Len(oplog) = 1 /\ oplog[1].role = "asset" /\ oplog[1].res = "ok"
    /\ orphans = <<>>

\* ------------------------------------------------- post-passes: C23
\* C23: when the run is over (the scan having returned Ok), every
\* OrphanRecord has had its move or delete issued and every folder-flagged
\* destination its directory creation, whatever operations failed.
C23_PostPassesIssueAll ==
    (Done /\ "scan" \notin aborted) =>
        /\ \A i \in 1..Len(orphans) :
            \E id \in LogIds : /\ oplog[id].role \in {"move", "delete"}
                               /\ oplog[id].key = orphans[i]
        /\ \A ap \in FolderTargets :
            \E id \in LogIds : /\ oplog[id].role = "folder"
                               /\ oplog[id].key = extract_guid_from_path(ap)


\* ------------------------------------------------- streaming: C29
\* The asset and orphan writes the caller runs itself in the current step:
\* all of them are chunked streams with the threshold as chunk size.
StreamedNow ==
    {id \in 1..Len(oplog') :
        /\ oplog'[id].role \in {"asset", "orphan"}
        /\ oplog'[id].iexec = 1
        /\ (id \in LogIds => oplog[id].iexec = 0)}

\* C29: a synchronous chunked stream that returns Ok leaves at its
\* (sanitized) target a file holding exactly the payload bytes in order, for
\* every payload length and every stream threshold, 0 included.
C29_StreamWritesPayload ==
    [][\A id \in StreamedNow :
          oplog'[id].res = "ok" =>
              LET target == sanitize_path(oplog'[id].op.path).path
              IN  /\ IsFile(fs', target)
                  /\ fs'.files[target] = oplog'[id].op.data]_vars

\* ------------------------------------------- can_allocate: C30
\* can_allocate called once on a tracker with any counter and cap, for any
\* size, in either build: values at both ends of the u64 range.
AllocValues == {0, 1, 2, U64_MAX - 1, U64_MAX}

AllocInit ==
    /\ mainPC = "alloc"
    /\ used \in AllocValues /\ cap \in AllocValues
    /\ oplog = <<>>
    /\ fs = EmptyFs /\ warnings = {}
    /\ threshold = 0 /\ nworkers = 0
    /\ queue = <<>> /\ closed = FALSE
    /\ wpc = [w \in Workers |-> "off"]
    /\ wtask = [w \in Workers |-> 0]
    /\ scanned = <<>> /\ pathnames = <<>> /\ folders = {} /\ orphans = <<>>
    /\ assets = <<>>
    /\ pending = 0 /\ oidx = 1 /\ ftodo = {} /\ aborted = {}
    /\ sanIn = <<>> /\ sanOut = NoResult /\ sanAgain = NoResult

\* One call: the log keeps the size, the build and the outcome; the counter
\* is only loaded.
AllocCall ==
    /\ mainPC = "alloc" /\ oplog = <<>>
    /\ \E size \in AllocValues, build \in Builds :
        oplog' = <<[size |-> size, build |-> build,
                    outcome |-> can_allocate_call(build, used, size, cap)]>>
    /\ UNCHANGED <<cfgVars, poolVars, ctxVars, mainVars, fs, warnings, sanVars>>

AllocNext == AllocCall

AllocSpec == AllocInit /\ [][AllocNext]_vars

\* C30: can_allocate(size) leaves the counter unchanged and returns true
\* exactly when the mathematical sum used + size is at most cap, for all
\* values of the counter, the size and the cap, those whose sum exceeds the
\* largest u64 included.
C30_CanAllocateExact ==
    [][Len(oplog') = 1 =>
          /\ used' = used
          /\ oplog'[1].outcome = (IF used + oplog'[1].size <= cap THEN "true"
                                  ELSE "false")]_vars

\* ------------------------------------- entry-path shapes: C21, C22, C24
\* A scan of entries whose paths have other shapes than <key>/<name>: no key
\* directory ("asset"), a leading "." ("./g/asset"), a leading directory
\* ("d/g/asset"), and a key directory whose name the sanitizer changes
\* (".g/asset"); "g/asset" is the usual shape.
ShapeDirs ==
    {<<>>, << <<"g">> >>, << <<".">>, <<"g">> >>, << <<"d">>, <<"g">> >>,
     << <<".", "g">> >>}

ShapeEntries ==
    {[path |-> join(dir, "asset"), size |-> 1, folder |-> FALSE, text |-> <<>>]
        : dir \in ShapeDirs}
    \cup {[path |-> join(dir, "asset.meta"), size |-> 0, folder |-> TRUE,
           text |-> <<>>] : dir \in ShapeDirs}
    \cup {[path |-> join(dir, "pathname"), size |-> 0, folder |-> FALSE,
           text |-> <<"d", "/", "f">>] : dir \in ShapeDirs}

ShapeInit ==
    /\ cap \in {0, KB + 1}
    /\ threshold = 2
    /\ nworkers \in {0, 1}
    /\ used = 0 /\ queue = <<>> /\ closed = FALSE
    /\ wpc = [w \in Workers |-> IF w <= nworkers THEN "recv" ELSE "off"]
    /\ wtask = [w \in Workers |-> 0]
    /\ fs = EmptyFs /\ warnings = {}
    /\ scanned = <<>> /\ pathnames = <<>> /\ folders = {} /\ orphans = <<>>
    /\ assets = <<>>
    /\ mainPC = "scan" /\ pending = 0 /\ oidx = 1 /\ ftodo = {}
    /\ oplog = <<>> /\ aborted = {}
    /\ sanIn = <<>> /\ sanOut = NoResult /\ sanAgain = NoResult

ShapeNext ==
    \/ \E e \in ShapeEntries : ScanEntry(e)
    \/ EndScan
    \/ MainSync
    \/ FolderStep
    \/ FolderEnd
    \/ OrphanStep
    \/ OrphanEnd
    \/ ShutdownClose
    \/ ShutdownReturn
    \/ \E w \in Workers : WorkerRecv(w)
    \/ \E w \in Workers : WorkerRun(w)
    \/ \E w \in Workers : WorkerRelease(w)
    \/ \E w \in Workers : WorkerExit(w)

ShapeSpec == ShapeInit /\ [][ShapeNext]_vars

\* The destination texts the archive holds for an asset key: those of the
\* pathname entries scanned in a directory of that name.
DestForKey(guid) ==
    {scanned[j].text : j \in {i \in 1..Len(scanned) :
        /\ scanned[i].path.leaf = "pathname"
        /\ file_name(parent(scanned[i].path)) = guid}}

\* The orphan writes and the moves and deletes issued so far, in order.
IsOrphanWrite(r) == r.role = "orphan"
IsResolve(r) == r.role \in {"move", "delete"}
OrphanWrites == SelectSeq(oplog, IsOrphanWrite)
ResolveOps == SelectSeq(oplog, IsResolve)

\* C21: orphan resolution issues exactly one operation per OrphanRecord: a
\* move to the destination if the archive holds a destination entry for the
\* record's asset key, anywhere in the stream, and a delete otherwise, for
\* every shape of the entry path.
C21_ResolveMatchesArchive ==
    (mainPC \in {"shutdown", "done"} /\ aborted = {}) =>
        /\ Len(ResolveOps) = Len(orphans)
        /\ \A i \in 1..Len(orphans) :
            IF DestForKey(orphans[i]) # {}
            THEN /\ ResolveOps[i].op.kind = "move"
                 /\ ResolveOps[i].op.path \in DestForKey(orphans[i])
            ELSE ResolveOps[i].op.kind = "delete"

\* C22: the temporary path of an OrphanRecord is the path its payload was
\* written at: the record, the source of its move and the path of its delete
\* equal the sanitized path the orphan write created.
C22_ResolveActsOnWrittenPath ==
    \A i \in 1..Len(ResolveOps) :
        LET written == sanitize_path(OrphanWrites[i].op.path)
            r == ResolveOps[i].op
        IN  written.ok =>
                /\ orphans[i] = written.path
                /\ (IF r.kind = "move" THEN r.src ELSE r.path) = written.path

\* C24: every entry named asset, asset.meta or pathname is classified and
\* handled, whatever directories lead to it and also with none: the pathname
\* is stored, the folder flag set, the asset routed (or skipped as a folder
\* placeholder); the scan goes on unless an operation it ran has failed.
C24_EveryShapeHandled ==
    [][Len(scanned') = Len(scanned) + 1 =>
          LET e == scanned'[Len(scanned')]
          IN  /\ mainPC' = "scan" \/ \E id \in NewIds : oplog'[id].res = "err"
              /\ e.path.leaf = "pathname" =>
                    join(parent(e.path), "asset") \in DOMAIN pathnames'
              /\ (e.path.leaf = "asset.meta" /\ e.folder) => e.path \in folders'
              /\ e.path.leaf = "asset" =>
                    \/ Cardinality(NewIds) = 1
                    \/ DestRead(e.path) = {} /\ FlagRead(e.path)]_vars

\* ------------------------------------------------- context frame: C31
\* The current step scans an entry with the given file name.
ScansLeaf(leaf) ==
    /\ mainPC = "scan"
    /\ Len(scanned') = Len(scanned) + 1
    /\ scanned'[Len(scanned')].path.leaf = leaf

\* C31: the destination table and the folder-flag set only grow: every key
\* stays, with its destination; the table changes only in the scan step of a
\* pathname entry and the set only in that of an asset.meta entry; the
\* post-passes, shutdown and the workers leave both as they are.
C31_ContextOnlyGrowsInScan ==
    [][/\ DOMAIN pathnames \subseteq DOMAIN pathnames'
       /\ \A q \in DOMAIN pathnames : pathnames'[q] = pathnames[q]
       /\ folders \subseteq folders'
       /\ pathnames' # pathnames => ScansLeaf("pathname")
       /\ folders' # folders => ScansLeaf("asset.meta")]_vars

C31_Witness ==
    /\ Done /\ aborted = {}
    /\ Cardinality(DOMAIN pathnames) = 2 /\ Cardinality(folders) = 1
    /\ \E i \in LogIds :
        /\ oplog[i].role = "folder" /\ oplog[i].wexec = 1 /\ oplog[i].res = "ok"

\* ------------------------------------ single-pass extractor: C32
\* main.rs: one loop over the entries with an in-memory map of the asset
\* data read so far; a pathname entry takes its asset out of the map and
\* spawns the write.  The spawned tasks run concurrently with the loop and
\* are awaited after it.  oplog holds one record per spawned task.

\* read_asset_to_memory
read_asset_to_memory(e) ==
    /\ assets' = [q \in (DOMAIN assets) \cup {e.path} |->
                    IF q = e.path
                    THEN Payload(extract_guid_from_path(e.path), e.size)
                    ELSE assets[q]]
    /\ UNCHANGED <<folders, oplog, warnings>>

\* check_for_folders
check_for_folders(e) ==
    /\ folders' = IF e.folder THEN folders \cup {e.path} ELSE folders
    /\ UNCHANGED <<assets, oplog, warnings>>

\* Faulty variant of read_destination_path_and_write: the data is copied,
\* not taken, out of the map.
read_destination_path_and_write_keeps(e) ==
    LET asset_path == join(parent(e.path), "asset")
    IN  IF asset_path \in DOMAIN assets
        THEN /\ oplog' = Append(oplog,
                    LogEntry(Op("write", e.text, <<>>, assets[asset_path], 0),
                             Len(assets[asset_path]), "single",
                             extract_guid_from_path(e.path), FALSE, NotGated,
                             0, "none"))
             /\ UNCHANGED <<assets, folders, warnings>>
        ELSE /\ warnings' = IF e.path \in folders
                            THEN warnings \cup {[what |-> "no_asset_data",
                                                 name |-> e.text]}
                            ELSE warnings
             /\ UNCHANGED <<assets, folders, oplog>>

\* read_destination_path_and_write: assets.remove(&asset_path) and, for
\* Some(asset_data), tokio::spawn of write_asset_to_pathname.
read_destination_path_and_write(e) ==
    LET asset_path == join(parent(e.path), "asset")
    IN  IF asset_path \in DOMAIN assets
        THEN /\ assets' = [q \in (DOMAIN assets) \ {asset_path} |-> assets[q]]
             /\ oplog' = Append(oplog,
                    LogEntry(Op("write", e.text, <<>>, assets[asset_path], 0),
                             Len(assets[asset_path]), "single",
                             extract_guid_from_path(e.path), FALSE, NotGated,
                             0, "none"))
             /\ UNCHANGED <<folders, warnings>>
        ELSE /\ warnings' = IF e.path \in folders
                            THEN warnings \cup {[what |-> "no_asset_data",
                                                 name |-> e.text]}
                            ELSE warnings
             /\ UNCHANGED <<assets, folders, oplog>>

\* One iteration of the loop of main.
SingleScanEntry(e) ==
    /\ mainPC = "single_scan"
    /\ Len(scanned) < MaxEntries
    /\ e.path \notin ScannedPaths
    /\ scanned' = Append(scanned, e)
    /\ CASE e.path.leaf = "asset"      -> read_asset_to_memory(e)
         [] e.path.leaf = "asset.meta" -> check_for_folders(e)
         [] e.path.leaf = "pathname"   -> read_destination_path_and_write(e)
    /\ UNCHANGED <<cfgVars, poolVars, pathnames, orphans, mainVars, fs, sanVars>>

\* The archive iterator ends: "end of archive".
SingleEndScan ==
    /\ mainPC = "single_scan"
    /\ mainPC' = "single_await"
    /\ UNCHANGED <<cfgVars, poolVars, ctxVars, pending, oidx, ftodo, aborted,
                   fs, warnings, oplog, sanVars>>

\* A spawned write_asset_to_pathname task runs (main.rs 129-170: sanitize,
\* create the parent directories, create the file, write the data).
SingleTaskRun(id) ==
    /\ mainPC \in {"single_scan", "single_await"}
    /\ id \in LogIds /\ oplog[id].wexec = 0
    /\ LET r == create_file_with_content(fs, oplog[id].op.data, oplog[id].op.path)
       IN  /\ fs' = r.fs
           /\ oplog' = [oplog EXCEPT ![id].wexec = 1, ![id].res = Res(r.ok)]
    /\ UNCHANGED <<cfgVars, poolVars, ctxVars, mainVars, warnings, sanVars>>

\* Every task has been awaited: "done".
SingleDone ==
    /\ mainPC = "single_await"
    /\ \A id \in LogIds : oplog[id].wexec = 1
    /\ mainPC' = "single_done"
    /\ UNCHANGED <<cfgVars, poolVars, ctxVars, pending, oidx, ftodo, aborted,
                   fs, warnings, oplog, sanVars>>

SingleInit ==
    /\ mainPC = "single_scan"
    /\ assets = <<>> /\ folders = {} /\ oplog = <<>>
    /\ scanned = <<>> /\ pathnames = <<>> /\ orphans = <<>>
    /\ fs = EmptyFs /\ warnings = {}
    /\ cap = 0 /\ threshold = 0 /\ nworkers = 0
    /\ used = 0 /\ queue = <<>> /\ closed = FALSE
    /\ wpc = [w \in Workers |-> "off"]
    /\ wtask = [w \in Workers |-> 0]
    /\ pending = 0 /\ oidx = 1 /\ ftodo = {} /\ aborted = {}
    /\ sanIn = <<>> /\ sanOut = NoResult /\ sanAgain = NoResult

SingleNext ==
    \/ \E e \in Entries : SingleScanEntry(e)
    \/ SingleEndScan
    \/ \E id \in 1..MaxEntries : SingleTaskRun(id)
    \/ SingleDone

SinglePassSpec == SingleInit /\ [][SingleNext]_vars

\* The keys whose data entry was scanned, and whether the destination entry
\* of a key arrived after its data entry.
AssetKeysScanned == {k \in Keys : join(<<k>>, "asset") \in ScannedPaths}
DestAfterData(k) ==
    PosOf(join(<<k>>, "pathname")) > PosOf(join(<<k>>, "asset"))
TasksOf(k) == {id \in LogIds : oplog[id].key = k}

\* An asset whose destination entry did not arrive after its data entry is
\* still in the map when the run is over and no write was spawned for it.
LeftInMap(k) ==
    /\ join(<<k>>, "asset") \in DOMAIN assets
    /\ assets[join(<<k>>, "asset")] = Payload(k, EntryAt(join(<<k>>, "asset")).size)
    /\ TasksOf(k) = {}

\* C32 as claimed: when the single-pass run is over, an asset has been
\* written to disk if and only if its pathname entry arrived after its data
\* entry; one whose destination entry preceded its data entry (or never
\* came) is still in the map and was never written.
C32_WrittenIffDestAfterData ==
    mainPC = "single_done" =>
        \A k \in AssetKeysScanned :
            /\ DestAfterData(k) <=>
                    \E id \in TasksOf(k) : oplog[id].res = "ok"
            /\ ~DestAfterData(k) => LeftInMap(k)

\* C32 as amended: an asset's write is spawned, once, if and only if its
\* pathname entry arrived after its data entry, with the asset's bytes and
\* the destination read, the asset leaving the map; the write puts the
\* bytes on disk exactly when the sanitizer accepts the destination; an
\* asset whose destination entry preceded its data entry (or never came)
\* is still in the map and was never written.
C32_SpawnedIffDestAfterData ==
    mainPC = "single_done" =>
        \A k \in AssetKeysScanned :
            /\ DestAfterData(k) <=> TasksOf(k) # {}
            /\ DestAfterData(k) =>
                /\ Cardinality(TasksOf(k)) = 1
                /\ join(<<k>>, "asset") \notin DOMAIN assets
                /\ \A id \in TasksOf(k) :
                    /\ oplog[id].op.path = EntryAt(join(<<k>>, "pathname")).text
                    /\ oplog[id].op.data =
                            Payload(k, EntryAt(join(<<k>>, "asset")).size)
                    /\ oplog[id].wexec = 1
                    /\ oplog[id].res = "ok" <=> sanitize_path(oplog[id].op.path).ok
            /\ ~DestAfterData(k) => LeftInMap(k)

\* One asset written (its destination came after its data) and another
\* left in the map in the same run.
C32_Witness ==
    /\ mainPC = "single_done" /\ Len(scanned) = MaxEntries
    /\ \E k, l \in AssetKeysScanned :
        /\ DestAfterData(k)
        /\ \E id \in TasksOf(k) :
            /\ oplog[id].res = "ok"
            /\ IsFile(fs, sanitize_path(oplog[id].op.path).path)
            /\ fs.files[sanitize_path(oplog[id].op.path).path] = oplog[id].op.data
        /\ ~DestAfterData(l) /\ LeftInMap(l)

\* An asset whose destination entry came first is lost.
C32_WitnessLost ==
    /\ mainPC = "single_done"
    /\ \E k \in AssetKeysScanned :
        /\ PosOf(join(<<k>>, "pathname")) > 0 /\ ~DestAfterData(k)
        /\ LeftInMap(k) /\ DOMAIN fs.files = {}

=============================================================================
